---- MODULE Spec2Model ----
(***************************************************************************)
(* Model of src/src/main.py: IPExtractor (regex matching, classification,  *)
(* chunked parallel extraction), connect_to_mongodb, main and the          *)
(* scheduling loop.                                                        *)
(*                                                                         *)
(* A bytes object is a sequence of integers 0..255.  A str is a sequence   *)
(* of Unicode code points.  Text written in this module as a tuple of      *)
(* one-character strings is turned into either by Ord.                     *)
(***************************************************************************)
EXTENDS Integers, Sequences, FiniteSets, TLC

----------------------------------------------------------------------------
(* Characters and bytes *)

Ord(c) ==
    CASE c = "0" -> 48 [] c = "1" -> 49 [] c = "2" -> 50 [] c = "3" -> 51
      [] c = "4" -> 52 [] c = "5" -> 53 [] c = "6" -> 54 [] c = "7" -> 55
      [] c = "8" -> 56 [] c = "9" -> 57 [] c = "." -> 46 [] c = " " -> 32
      [] c = ";" -> 59 [] c = "_" -> 95
      [] c = "a" -> 97 [] c = "c" -> 99 [] c = "d" -> 100 [] c = "e" -> 101
      [] c = "f" -> 102 [] c = "i" -> 105 [] c = "l" -> 108 [] c = "m" -> 109
      [] c = "n" -> 110 [] c = "o" -> 111 [] c = "r" -> 114 [] c = "t" -> 116
      [] c = "v" -> 118 [] c = "x" -> 120
      [] c = "\n" -> 10

\* The text t (a tuple of one-character strings) as ASCII code points.
Text(t) == [i \in 1..Len(t) |-> Ord(t[i])]

Dot == Ord(".")

IsDigit(x) == x \in 48..57

\* \w of a bytes pattern: [a-zA-Z0-9_]
IsWordByte(x) == IsDigit(x) \/ x \in 65..90 \/ x \in 97..122 \/ x = 95

----------------------------------------------------------------------------
(* IP_PATTERN and findall *)

\* \b at index i of b: between b[i-1] and b[i], the ends of b counting as non-word.
WordBoundary(b, i) ==
    LET before == i > 1 /\ i - 1 <= Len(b) /\ IsWordByte(b[i - 1])
        after  == i >= 1 /\ i <= Len(b) /\ IsWordByte(b[i])
    IN  before # after

\* True iff b[i] exists and lies in lo..hi.
ByteIn(b, i, lo, hi) == i >= 1 /\ i <= Len(b) /\ b[i] >= lo /\ b[i] <= hi

\* The index after each way (?:25[0-5]|2[0-4][0-9]|[01]?[0-9][0-9]?) matches at
\* index i of b, in the order the backtracking matcher tries them.
OctetEnds(b, i) ==
    LET d(k) == ByteIn(b, k, 48, 57)
        a1 == IF ByteIn(b, i, 50, 50) /\ ByteIn(b, i + 1, 53, 53) /\ ByteIn(b, i + 2, 48, 53)
              THEN <<i + 3>> ELSE <<>>
        a2 == IF ByteIn(b, i, 50, 50) /\ ByteIn(b, i + 1, 48, 52) /\ d(i + 2)
              THEN <<i + 3>> ELSE <<>>
        \* [01] taken
        a3 == IF ByteIn(b, i, 48, 49) /\ d(i + 1)
              THEN (IF d(i + 2) THEN <<i + 3>> ELSE <<>>) \o <<i + 2>>
              ELSE <<>>
        \* [01] skipped
        a4 == IF d(i)
              THEN (IF d(i + 1) THEN <<i + 2>> ELSE <<>>) \o <<i + 1>>
              ELSE <<>>
    IN  a1 \o a2 \o a3 \o a4

RECURSIVE MatchFrom(_, _, _, _)
\* Match k octets separated by dots from index i, then \b, trying the j-th and later
\* ways of matching the first of them: the index after the first match the
\* backtracking search finds, or 0.
MatchFrom(b, i, k, j) ==
    LET ends == OctetEnds(b, i)
    IN  IF j > Len(ends) THEN 0
        ELSE LET e == ends[j]
                 r == IF k = 1
                      THEN (IF WordBoundary(b, e) THEN e ELSE 0)
                      ELSE IF ByteIn(b, e, Dot, Dot) THEN MatchFrom(b, e + 1, k - 1, 1)
                      ELSE 0
             IN  IF r # 0 THEN r ELSE MatchFrom(b, i, k, j + 1)

\* IP_PATTERN.match at index i: the index after the match, or 0.
MatchAt(b, i) == IF WordBoundary(b, i) THEN MatchFrom(b, i, 4, 1) ELSE 0

RECURSIVE ScanFrom(_, _)
\* findall from index i: leftmost matches, non-overlapping, as <<start, end>> spans
\* (end exclusive).
ScanFrom(b, i) ==
    IF i > Len(b) THEN <<>>
    ELSE LET e == MatchAt(b, i)
         IN  IF e # 0 THEN <<(<<i, e>>)>> \o ScanFrom(b, e)
             ELSE ScanFrom(b, i + 1)

MatchSpans(b) == ScanFrom(b, 1)

\* IP_PATTERN.findall(b): the matched byte strings, in order.
IP_PATTERN_findall(b) ==
    LET sp == MatchSpans(b)
    IN  [n \in 1..Len(sp) |-> SubSeq(b, sp[n][1], sp[n][2] - 1)]

----------------------------------------------------------------------------
(* bytes.decode, ipaddress.ip_address, validate_ip *)

\* bytes.decode('utf-8', errors='ignore') on single-byte data: an ASCII byte is
\* its own code point, a byte that starts no valid sequence is dropped.
Decode(b) == SelectSeq(b, LAMBDA x : x < 128)

RECURSIVE SplitFrom(_, _, _)
\* str.split('.') of s from index i, cur being the piece read so far.
SplitFrom(s, i, cur) ==
    IF i > Len(s) THEN <<cur>>
    ELSE IF s[i] = Dot THEN <<cur>> \o SplitFrom(s, i + 1, <<>>)
    ELSE SplitFrom(s, i + 1, Append(cur, s[i]))

Split(s) == SplitFrom(s, 1, <<>>)

RECURSIVE DecimalValue(_, _)
\* int() of the first n characters of the digit string o.
DecimalValue(o, n) == IF n = 0 THEN 0 ELSE 10 * DecimalValue(o, n - 1) + (o[n] - 48)

\* IPv4Address._parse_octet: the octet's value, or -1 where it raises ValueError.
ParseOctet(o) ==
    IF Len(o) = 0 THEN -1
    ELSE IF \E i \in 1..Len(o) : ~IsDigit(o[i]) THEN -1
    ELSE IF Len(o) > 3 THEN -1
    ELSE IF Len(o) > 1 /\ o[1] = 48 THEN -1
    ELSE IF DecimalValue(o, Len(o)) > 255 THEN -1
    ELSE DecimalValue(o, Len(o))

\* What ip_address yields where the constructor raises ValueError.
ValueError == <<>>

\* ipaddress.ip_address(s): the address as its four octets, or ValueError.
ip_address(s) ==
    LET parts == Split(s)
    IN  IF Len(parts) # 4 THEN ValueError
        ELSE IF \E i \in 1..4 : ParseOctet(parts[i]) = -1 THEN ValueError
        ELSE [i \in 1..4 |-> ParseOctet(parts[i])]

\* ipaddress.ip_network('a.b.c.d/prefix')
ip_network(a, b, c, d, prefix) == [address |-> <<a, b, c, d>>, prefixlen |-> prefix]

RECURSIVE Pow2(_)
Pow2(n) == IF n = 0 THEN 1 ELSE 2 * Pow2(n - 1)

\* The number of bits of octet j (1..4) that a prefix of the given length covers.
MaskBits(prefix, j) ==
    IF prefix >= 8 * j THEN 8
    ELSE IF prefix <= 8 * (j - 1) THEN 0
    ELSE prefix - 8 * (j - 1)

\* ip in net: ip and the network address agree on the first prefixlen bits.
InNetwork(ip, net) ==
    \A j \in 1..4 :
        ip[j] \div Pow2(8 - MaskBits(net.prefixlen, j))
            = net.address[j] \div Pow2(8 - MaskBits(net.prefixlen, j))

\* PRIVATE_NETWORKS with 172.16.0.0/16 written for 172.16.0.0/12.
PRIVATE_NETWORKS_Narrow ==
    << ip_network(10, 0, 0, 0, 8), ip_network(172, 16, 0, 0, 16),
       ip_network(192, 168, 0, 0, 16) >>

PRIVATE_NETWORKS ==
    << ip_network(10, 0, 0, 0, 8), ip_network(172, 16, 0, 0, 12),
       ip_network(192, 168, 0, 0, 16) >>

is_unspecified(ip) == ip = <<0, 0, 0, 0>>
is_reserved(ip) == InNetwork(ip, ip_network(240, 0, 0, 0, 4))
is_multicast(ip) == InNetwork(ip, ip_network(224, 0, 0, 0, 4))

validate_ip(s) ==
    LET ip_obj == ip_address(s)
    IN  IF ip_obj = ValueError THEN FALSE
        ELSE /\ ~(is_unspecified(ip_obj) \/ is_reserved(ip_obj) \/ is_multicast(ip_obj))
             /\ \E n \in 1..Len(PRIVATE_NETWORKS) : InNetwork(ip_obj, PRIVATE_NETWORKS[n])

----------------------------------------------------------------------------
(* _process_chunk *)

SeqRange(q) == {q[i] : i \in 1..Len(q)}

\* _process_chunk adding every candidate to public_ips, the valid ones to
\* private_ips as well.
process_chunk_AllPublic(chunk) ==
    LET found == IP_PATTERN_findall(chunk)
        ips == {Decode(found[i]) : i \in 1..Len(found)}
    IN  << {ip \in ips : validate_ip(ip)}, ips >>

\* _process_chunk(chunk): <<private_ips, public_ips>>, two sets of str.
process_chunk(chunk) ==
    LET found == IP_PATTERN_findall(chunk)
        ips == {Decode(found[i]) : i \in 1..Len(found)}
    IN  << {ip \in ips : validate_ip(ip)}, {ip \in ips : ~validate_ip(ip)} >>

----------------------------------------------------------------------------
(* sorted(list(set of str)) *)

RECURSIVE StrLessFrom(_, _, _)
\* a < b on str, comparing from index i: code point by code point, a proper prefix
\* first.
StrLessFrom(a, b, i) ==
    IF i > Len(b) THEN FALSE
    ELSE IF i > Len(a) THEN TRUE
    ELSE IF a[i] # b[i] THEN a[i] < b[i]
    ELSE StrLessFrom(a, b, i + 1)

StrLess(a, b) == StrLessFrom(a, b, 1)

\* The octets of the dotted text s as numbers (leading zeros allowed).
OctetValues(s) == [i \in 1..Len(Split(s)) |-> DecimalValue(Split(s)[i], Len(Split(s)[i]))]

\* a <= b in dotted-quad order: octet by octet, as numbers.
QuadLeq(a, b) ==
    LET x == OctetValues(a)
        y == OctetValues(b)
    IN  \/ x = y
        \/ \E j \in 1..4 : x[j] < y[j] /\ \A k \in 1..(j - 1) : x[k] = y[k]

RECURSIVE sorted_numeric(_)
\* sorted with the addresses compared as numbers, not as strings.
sorted_numeric(S) ==
    IF S = {} THEN <<>>
    ELSE LET m == CHOOSE x \in S : \A y \in S : QuadLeq(x, y)
         IN  <<m>> \o sorted_numeric(S \ {m})

RECURSIVE sorted(_)
sorted(S) ==
    IF S = {} THEN <<>>
    ELSE LET m == CHOOSE x \in S : \A y \in S \ {x} : StrLess(x, y)
         IN  <<m>> \o sorted(S \ {m})

----------------------------------------------------------------------------
(* Inputs *)

\* The smallest chunk_size the model passes to extract_ips_from_file.
MinChunkSize == 15

\* chunk_size: int = 1024 * 1024
DEFAULT_CHUNK_SIZE == 1024 * 1024

ChunkSizes == {MinChunkSize, MinChunkSize + 1, 64, 1024, DEFAULT_CHUNK_SIZE}

\* What is found at file_path: nothing, a file open() refuses, or a regular file.
Missing == [kind |-> "missing", data |-> <<>>]
Unreadable(t) == [kind |-> "unreadable", data |-> Text(t)]
Regular(t) == [kind |-> "regular", data |-> Text(t)]

ScenarioText ==
    << "c","o","n","n","e","c","t"," ","f","r","o","m"," ",
       "1","9","2",".","1","6","8",".","1",".","1"," ","t","o"," ",
       "8",".","8",".","8",".","8"," ","a","n","d"," ",
       "1","0",".","0",".","0",".","5",";"," ","i","n","v","a","l","i","d"," ",
       "9","9","9",".","1",".","1",".","1"," ","a","n","d"," ",
       "3","0","0",".","1",".","1",".","1" >>

\* "0.0.0.0 224.0.0.1 240.0.0.1 10.0.0.1"
SpecialText ==
    << "0",".","0",".","0",".","0"," ","2","2","4",".","0",".","0",".","1"," ",
       "2","4","0",".","0",".","0",".","1"," ","1","0",".","0",".","0",".","1" >>

\* "xxxxxxxxxx 192.168.1.100 8.8.8.8"
StraddleText ==
    << "x","x","x","x","x","x","x","x","x","x"," ",
       "1","9","2",".","1","6","8",".","1",".","1","0","0"," ",
       "8",".","8",".","8",".","8" >>

\* "10.0.0.2 172.31.0.1 10.0.0.100 172.32.0.1 192.169.0.1"
OrderText ==
    << "1","0",".","0",".","0",".","2"," ","1","7","2",".","3","1",".","0",".","1"," ",
       "1","0",".","0",".","0",".","1","0","0"," ","1","7","2",".","3","2",".","0",".","1"," ",
       "1","9","2",".","1","6","9",".","0",".","1" >>

\* "10.0.0.1 8.8.8.8 10.0.0.1 8.8.8.8"
DupText ==
    << "1","0",".","0",".","0",".","1"," ","8",".","8",".","8",".","8"," ",
       "1","0",".","0",".","0",".","1"," ","8",".","8",".","8",".","8" >>

\* "010.1.1.1 1.2.3.4.5 a1.2.3.4 256.1.1.1"
OddText ==
    << "0","1","0",".","1",".","1",".","1"," ","1",".","2",".","3",".","4",".","5"," ",
       "a","1",".","2",".","3",".","4"," ","2","5","6",".","1",".","1",".","1" >>

\* "10.0.0.1 8.8.8.8"
PairText ==
    << "1","0",".","0",".","0",".","1"," ","8",".","8",".","8",".","8" >>

\* "10.0.0.1"
OneText == << "1","0",".","0",".","0",".","1" >>

\* The files extract_ips_from_file is called on directly.
Files ==
    { Missing, Unreadable(PairText), Regular(<<>>), Regular(ScenarioText),
      Regular(SpecialText), Regular(StraddleText), Regular(OrderText),
      Regular(DupText), Regular(OddText) }

\* What data/access.log holds when a run of main reads it.
LogFiles == { Missing, Regular(<<>>), Regular(PairText), Regular(OneText) }

----------------------------------------------------------------------------
(* State *)

VARIABLES
    pc,            \* where the main thread is
    ret,           \* who called extract_ips_from_file: "caller" or "main"
    source,        \* what is at file_path
    chunk_size,    \* extract_ips_from_file's chunk_size
    offset,        \* the open file's read position
    futures,       \* the futures list: the submitted chunk tasks, in order
    private_ips,   \* extract_ips_from_file's private_ips set
    public_ips,    \* extract_ips_from_file's public_ips set
    failure,       \* the exception raised inside extract_ips_from_file's try, if any
    outcome,       \* how the last call of extract_ips_from_file ended
    attempt,       \* connect_to_mongodb's attempt
    waits,         \* the time.sleep(retry_delay) calls of this connect_to_mongodb
    retries,       \* connect_to_mongodb's max_retries
    tried,         \* the connection attempts this connect_to_mongodb has made
    client,        \* main's client: "none" (None), "open" or "closed"
    indexed,       \* the unique indexes on "ip" exist
    private_coll,  \* the documents of the private_ips collection
    public_coll,   \* the documents of the public_ips collection
    now,           \* what time.time() returns
    current_time,  \* main's current_time
    found,         \* main's private_ips, public_ips
    wrote,         \* a bulk_write was issued in this run of main
    printed,       \* the counts this run of main has printed
    main_outcome   \* how the last run of main ended: "none", "return" or "raise"

extractVars ==
    <<source, chunk_size, offset, futures, private_ips, public_ips, failure, outcome>>

storeVars == <<indexed, private_coll, public_coll>>

connVars == <<retries, tried>>

mainVars ==
    <<attempt, waits, connVars, client, storeVars, now, current_time, found, wrote, printed,
      main_outcome>>

vars == <<pc, ret, extractVars, mainVars>>

\* A call that returned value v (kind "raise": a call that raised); no call yet.
Returned(v) == [kind |-> "return", value |-> v]
NoOutcome == [kind |-> "none", value |-> <<>>]

Min(a, b) == IF a < b THEN a ELSE b

----------------------------------------------------------------------------
(* extract_ips_from_file *)

\* ValidateFile without the getsize check.
ValidateFile_NoSizeCheck ==
    /\ pc = "validate"
    /\ IF source.kind = "missing"
       THEN /\ outcome' = [kind |-> "return", value |-> << <<>>, <<>> >>]
            /\ pc' = "returned"
            /\ UNCHANGED <<private_ips, public_ips>>
       ELSE /\ private_ips' = {}
            /\ public_ips' = {}
            /\ pc' = "open"
            /\ UNCHANGED outcome
    /\ UNCHANGED <<mainVars, ret, source, chunk_size, offset, futures, failure>>

\* Lines 48-52: the file check, then the two empty sets.
ValidateFile ==
    /\ pc = "validate"
    /\ IF source.kind = "missing" \/ Len(source.data) = 0
       THEN /\ outcome' = Returned(<< <<>>, <<>> >>)
            /\ pc' = "returned"
            /\ UNCHANGED <<private_ips, public_ips>>
       ELSE /\ private_ips' = {}
            /\ public_ips' = {}
            /\ pc' = "open"
            /\ UNCHANGED outcome
    /\ UNCHANGED <<mainVars, ret, source, chunk_size, offset, futures, failure>>

\* Lines 55-58: open the file and create the pool; open() raises on a file that
\* cannot be read.
OpenFile ==
    /\ pc = "open"
    /\ IF source.kind = "unreadable"
       THEN /\ failure' = "open"
            /\ pc' = "except"
            /\ UNCHANGED <<offset, futures>>
       ELSE /\ offset' = 0
            /\ futures' = <<>>
            /\ pc' = "read"
            /\ UNCHANGED failure
    /\ UNCHANGED <<mainVars, ret, source, chunk_size, private_ips, public_ips, outcome>>

\* file.read(chunk_size) at the current position.
FileRead == SubSeq(source.data, offset + 1, Min(offset + chunk_size, Len(source.data)))

\* executor.submit(cls._process_chunk, chunk): a new pending future.
Submit(chunk) ==
    Append(futures, [chunk |-> chunk, state |-> "pending", result |-> << {}, {} >>,
                     collected |-> FALSE])

\* Lines 59-64, one turn of the loop: read a chunk and submit it, or break on b''.
ReadChunk ==
    /\ pc = "read"
    /\ LET chunk == FileRead
       IN  IF Len(chunk) = 0
           THEN /\ pc' = "collect"
                /\ UNCHANGED <<offset, futures>>
           ELSE /\ futures' = Submit(chunk)
                /\ offset' = offset + Len(chunk)
                /\ pc' = "read"
    /\ UNCHANGED <<mainVars, ret, source, chunk_size, private_ips, public_ips, failure, outcome>>

\* Line 60: file.read raises (an I/O error in mid-stream).
ReadError ==
    /\ pc = "read"
    /\ failure' = "read"
    /\ pc' = "unwind"
    /\ UNCHANGED <<mainVars, ret, source, chunk_size, offset, futures, private_ips, public_ips, outcome>>

\* A worker process runs _process_chunk on the i-th submitted chunk.
WorkerRun(i) ==
    /\ pc \in {"read", "collect", "unwind"}
    /\ i \in 1..Len(futures)
    /\ futures[i].state = "pending"
    /\ futures' = [futures EXCEPT ![i].state = "finished",
                                  ![i].result = process_chunk(futures[i].chunk)]
    /\ UNCHANGED <<mainVars, pc, ret, source, chunk_size, offset, private_ips, public_ips, failure, outcome>>

\* The i-th task fails (its worker dies, _process_chunk raises): the future holds an
\* exception.
WorkerFail(i) ==
    /\ pc \in {"read", "collect", "unwind"}
    /\ i \in 1..Len(futures)
    /\ futures[i].state = "pending"
    /\ futures' = [futures EXCEPT ![i].state = "failed"]
    /\ UNCHANGED <<mainVars, pc, ret, source, chunk_size, offset, private_ips, public_ips, failure, outcome>>

\* The merge with assignment written for update.
Merge_Replace(acc, chunk_result) == chunk_result

\* Lines 69-70: private_ips.update(chunk_private); public_ips.update(chunk_public)
Merge(acc, chunk_result) == << acc[1] \cup chunk_result[1], acc[2] \cup chunk_result[2] >>

\* Lines 67-70, one turn of the loop: as_completed yields a future that is done, in
\* any order; future.result() returns the pair to merge, or raises.
Collect(i) ==
    /\ pc = "collect"
    /\ i \in 1..Len(futures)
    /\ ~futures[i].collected
    /\ futures[i].state # "pending"
    /\ futures' = [futures EXCEPT ![i].collected = TRUE]
    /\ IF futures[i].state = "failed"
       THEN /\ failure' = "task"
            /\ pc' = "unwind"
            /\ UNCHANGED <<private_ips, public_ips>>
       ELSE /\ private_ips' = Merge(<<private_ips, public_ips>>, futures[i].result)[1]
            /\ public_ips' = Merge(<<private_ips, public_ips>>, futures[i].result)[2]
            /\ pc' = "collect"
            /\ UNCHANGED failure
    /\ UNCHANGED <<mainVars, ret, source, chunk_size, offset, outcome>>

\* The lists returned as soon as the read loop has ended.
Finish_Early ==
    /\ pc = "collect"
    /\ outcome' = [kind |-> "return", value |-> << sorted(private_ips), sorted(public_ips) >>]
    /\ pc' = "returned"
    /\ UNCHANGED <<mainVars, ret, source, chunk_size, offset, futures, private_ips, public_ips, failure>>

\* Line 75, reached when as_completed is exhausted and the with blocks are left.
Finish ==
    /\ pc = "collect"
    /\ \A i \in 1..Len(futures) : futures[i].collected
    /\ outcome' = Returned(<< sorted(private_ips), sorted(public_ips) >>)
    /\ pc' = "returned"
    /\ UNCHANGED <<mainVars, ret, source, chunk_size, offset, futures, private_ips, public_ips, failure>>

\* An exception leaves the with blocks: the pool's __exit__ waits for every
\* submitted task, then the except clause is entered.
Unwind ==
    /\ pc = "unwind"
    /\ \A i \in 1..Len(futures) : futures[i].state # "pending"
    /\ pc' = "except"
    /\ UNCHANGED <<mainVars, ret, extractVars>>

\* The except clause returning what had been merged so far.
ExceptHandler_Partial ==
    /\ pc = "except"
    /\ outcome' = [kind |-> "return", value |-> << sorted(private_ips), sorted(public_ips) >>]
    /\ pc' = "returned"
    /\ UNCHANGED <<mainVars, ret, source, chunk_size, offset, futures, private_ips, public_ips, failure>>

\* Lines 71-73: log and return [], [].
ExceptHandler ==
    /\ pc = "except"
    /\ outcome' = Returned(<< <<>>, <<>> >>)
    /\ pc' = "returned"
    /\ UNCHANGED <<mainVars, ret, source, chunk_size, offset, futures, private_ips, public_ips, failure>>

----------------------------------------------------------------------------
(* A direct caller of extract_ips_from_file(file_path, chunk_size) *)

\* The state extract_ips_from_file is entered in.
Enter(f, cs, who) ==
    /\ source' = f
    /\ chunk_size' = cs
    /\ ret' = who
    /\ offset' = 0
    /\ futures' = <<>>
    /\ private_ips' = {}
    /\ public_ips' = {}
    /\ failure' = "none"
    /\ outcome' = NoOutcome
    /\ pc' = "validate"

\* A caller that holds no call in progress calls extract_ips_from_file(f, cs).
Call(f, cs) ==
    /\ pc = "idle" \/ (pc = "returned" /\ ret = "caller")
    /\ Enter(f, cs, "caller")
    /\ UNCHANGED mainVars

\* The extractor's variables before any call.
InitExtract ==
    /\ ret = "caller"
    /\ source = Missing
    /\ chunk_size = DEFAULT_CHUNK_SIZE
    /\ offset = 0
    /\ futures = <<>>
    /\ private_ips = {}
    /\ public_ips = {}
    /\ failure = "none"
    /\ outcome = NoOutcome

\* max_retries: int = 5
max_retries == 5

\* The program's variables before the first run, on an empty database.
InitMainVars ==
    /\ attempt = 0
    /\ waits = 0
    /\ retries = max_retries
    /\ tried = 0
    /\ client = "none"
    /\ indexed = FALSE
    /\ private_coll = {}
    /\ public_coll = {}
    /\ now = 1
    /\ current_time = 0
    /\ found = << <<>>, <<>> >>
    /\ wrote = FALSE
    /\ printed = <<>>
    /\ main_outcome = "none"

Init ==
    /\ pc = "idle"
    /\ InitExtract
    /\ InitMainVars

Next ==
    \/ \E f \in Files, cs \in ChunkSizes : Call(f, cs)
    \/ ValidateFile
    \/ OpenFile
    \/ ReadChunk
    \/ ReadError
    \/ \E i \in 1..Len(futures) : WorkerRun(i)
    \/ \E i \in 1..Len(futures) : WorkerFail(i)
    \/ \E i \in 1..Len(futures) : Collect(i)
    \/ Finish
    \/ Unwind
    \/ ExceptHandler

Spec == Init /\ [][Next]_vars

----------------------------------------------------------------------------
(* connect_to_mongodb *)

\* The largest value of the clock; time.time() stays at it once reached.
MaxTime == 3

\* Lines 121-151, an attempt that succeeds: the client is created and answers the
\* ping; create_index succeeds or raises, which is caught; the client is returned.
ConnectSucceed ==
    /\ pc = "connect"
    /\ attempt < retries
    /\ tried' = tried + 1
    /\ \E created \in BOOLEAN : indexed' = (indexed \/ created)
    /\ client' = "open"
    /\ pc' = "check_client"
    /\ UNCHANGED <<ret, extractVars, retries, attempt, waits, private_coll, public_coll, now,
                   current_time, found, wrote, printed, main_outcome>>

\* A failed attempt followed by the sleep even when it is the last.
ConnectFail_AlwaysWait ==
    /\ pc = "connect"
    /\ attempt < retries
    /\ tried' = tried + 1
    /\ waits' = waits + 1
    /\ IF attempt < retries - 1
       THEN /\ attempt' = attempt + 1
            /\ pc' = "connect"
            /\ UNCHANGED client
       ELSE /\ client' = "none"
            /\ pc' = "check_client"
            /\ UNCHANGED attempt
    /\ UNCHANGED <<ret, extractVars, retries, storeVars, now, current_time, found, wrote, printed,
                   main_outcome>>

\* Lines 153-159, an attempt that fails: sleep and try again, or after the last
\* attempt return None, None, None.
ConnectFail ==
    /\ pc = "connect"
    /\ attempt < retries
    /\ tried' = tried + 1
    /\ IF attempt < retries - 1
       THEN /\ waits' = waits + 1
            /\ attempt' = attempt + 1
            /\ pc' = "connect"
            /\ UNCHANGED client
       ELSE /\ client' = "none"
            /\ pc' = "check_client"
            /\ UNCHANGED <<attempt, waits>>
    /\ UNCHANGED <<ret, extractVars, retries, storeVars, now, current_time, found, wrote, printed,
                   main_outcome>>

\* Line 161: the loop over range(max_retries) ended without returning, which it
\* does only when it has no iteration; None, None, None is returned.
ConnectExhausted ==
    /\ pc = "connect"
    /\ attempt >= retries
    /\ client' = "none"
    /\ pc' = "check_client"
    /\ UNCHANGED <<ret, extractVars, connVars, attempt, waits, storeVars, now, current_time,
                   found, wrote, printed, main_outcome>>

----------------------------------------------------------------------------
(* A direct caller of connect_to_mongodb(..., max_retries) *)

\* The largest max_retries a direct caller passes.
MaxRetriesArg == 6

\* A caller that holds no call in progress calls connect_to_mongodb with
\* max_retries = n.
ConnectCall(n) ==
    /\ pc \in {"conn_idle", "check_client"}
    /\ retries' = n
    /\ tried' = 0
    /\ attempt' = 0
    /\ waits' = 0
    /\ pc' = "connect"
    /\ UNCHANGED <<ret, extractVars, client, storeVars, now, current_time, found, wrote,
                   printed, main_outcome>>

InitConn ==
    /\ pc = "conn_idle"
    /\ InitExtract
    /\ InitMainVars

NextConn ==
    \/ \E n \in 0..MaxRetriesArg : ConnectCall(n)
    \/ ConnectSucceed
    \/ ConnectFail
    \/ ConnectExhausted

ConnSpec == InitConn /\ [][NextConn]_vars

----------------------------------------------------------------------------
(* The collections *)

\* An update whose $set also carries first_seen.
UpdateOne_SetFirstSeen(coll, ip, t) ==
    {d \in coll : d.ip # ip} \cup {[ip |-> ip, first_seen |-> t, last_seen |-> t]}

\* UpdateOne({'ip': ip}, {'$set': {'ip': ip, 'last_seen': t},
\*           '$setOnInsert': {'first_seen': t}}, upsert=True) on collection coll.
UpdateOne(coll, ip, t) ==
    IF \E d \in coll : d.ip = ip
    THEN LET d == CHOOSE d \in coll : d.ip = ip
         IN  (coll \ {d}) \cup {[d EXCEPT !.last_seen = t]}
    ELSE coll \cup {[ip |-> ip, first_seen |-> t, last_seen |-> t]}

RECURSIVE BulkWrite(_, _, _)
\* The operations for the addresses ips applied to coll.
BulkWrite(coll, ips, t) ==
    IF ips = {} THEN coll
    ELSE LET ip == CHOOSE x \in ips : TRUE
         IN  BulkWrite(UpdateOne(coll, ip, t), ips \ {ip}, t)

\* count_documents({})
CountDocuments(coll) == Cardinality(coll)

----------------------------------------------------------------------------
(* main and the scheduling loop *)

\* Lines 251-254: the loop calls main.
LoopCall ==
    /\ pc = "loop"
    /\ pc' = "main_entry"
    /\ main_outcome' = "none"
    /\ UNCHANGED <<ret, extractVars, connVars, attempt, waits, client, storeVars, now, current_time,
                   found, wrote, printed>>

\* Lines 166-180: configure logging, read the environment, call connect_to_mongodb.
MainStart ==
    /\ pc = "main_entry"
    /\ retries' = max_retries
    /\ tried' = 0
    /\ attempt' = 0
    /\ waits' = 0
    /\ found' = << <<>>, <<>> >>
    /\ wrote' = FALSE
    /\ printed' = <<>>
    /\ pc' = "connect"
    /\ UNCHANGED <<ret, extractVars, client, storeVars, now, current_time, main_outcome>>

\* Main going on to the extraction whatever connect_to_mongodb returned.
MainCheckClient_NoCheck ==
    /\ pc = "check_client"
    /\ \E f \in LogFiles : Enter(f, DEFAULT_CHUNK_SIZE, "main")
    /\ UNCHANGED <<connVars, attempt, waits, client, storeVars, now, current_time, found,
                   wrote, printed, main_outcome>>

\* Lines 182-187: return if there is no client, else call extract_ips_from_file on
\* the log file as it is now, with the default chunk size.
MainCheckClient ==
    /\ pc = "check_client"
    /\ IF client = "none"
       THEN /\ main_outcome' = "return"
            /\ pc' = "main_return"
            /\ UNCHANGED <<ret, extractVars>>
       ELSE /\ \E f \in LogFiles : Enter(f, DEFAULT_CHUNK_SIZE, "main")
            /\ UNCHANGED main_outcome
    /\ UNCHANGED <<connVars, attempt, waits, client, storeVars, now, current_time, found,
                   wrote, printed>>

\* Lines 187-189: the call returns its lists (its frame is gone) and the time is
\* read; had it raised, main's except clause would be entered.
MainAfterExtract ==
    /\ pc = "returned"
    /\ ret = "main"
    /\ IF outcome.kind = "raise"
       THEN /\ pc' = "main_except"
            /\ UNCHANGED <<found, current_time>>
       ELSE /\ found' = outcome.value
            /\ current_time' = now
            /\ pc' = "store_private"
    /\ source' = Missing
    /\ chunk_size' = DEFAULT_CHUNK_SIZE
    /\ offset' = 0
    /\ futures' = <<>>
    /\ private_ips' = {}
    /\ public_ips' = {}
    /\ failure' = "none"
    /\ outcome' = NoOutcome
    /\ UNCHANGED <<ret, connVars, attempt, waits, client, storeVars, now, wrote, printed,
                   main_outcome>>

\* The private bulk_write issued without the test of line 193.
StorePrivate_NoCheck ==
    /\ pc = "store_private"
    /\ private_coll' = BulkWrite(private_coll, SeqRange(found[1]), current_time)
    /\ wrote' = TRUE
    /\ pc' = "store_public"
    /\ UNCHANGED <<ret, extractVars, connVars, attempt, waits, client, indexed, public_coll, now,
                   current_time, found, printed, main_outcome>>

\* Lines 193-211: the private addresses, if any, are upserted in one bulk_write.
StorePrivate ==
    /\ pc = "store_private"
    /\ IF found[1] # <<>>
       THEN /\ private_coll' = BulkWrite(private_coll, SeqRange(found[1]), current_time)
            /\ wrote' = TRUE
       ELSE UNCHANGED <<private_coll, wrote>>
    /\ pc' = "store_public"
    /\ UNCHANGED <<ret, extractVars, connVars, attempt, waits, client, indexed, public_coll, now,
                   current_time, found, printed, main_outcome>>

\* Line 208: bulk_write raises; being unordered, any of its operations may have
\* been applied.
StorePrivateFail ==
    /\ pc = "store_private"
    /\ found[1] # <<>>
    /\ \E applied \in SUBSET SeqRange(found[1]) :
           private_coll' = BulkWrite(private_coll, applied, current_time)
    /\ wrote' = TRUE
    /\ pc' = "main_except"
    /\ UNCHANGED <<ret, extractVars, connVars, attempt, waits, client, indexed, public_coll, now,
                   current_time, found, printed, main_outcome>>

\* Lines 213-231: the public addresses, if any, are upserted in one bulk_write.
StorePublic ==
    /\ pc = "store_public"
    /\ IF found[2] # <<>>
       THEN /\ public_coll' = BulkWrite(public_coll, SeqRange(found[2]), current_time)
            /\ wrote' = TRUE
       ELSE UNCHANGED <<public_coll, wrote>>
    /\ pc' = "report"
    /\ UNCHANGED <<ret, extractVars, connVars, attempt, waits, client, indexed, private_coll, now,
                   current_time, found, printed, main_outcome>>

\* Line 228: bulk_write raises.
StorePublicFail ==
    /\ pc = "store_public"
    /\ found[2] # <<>>
    /\ \E applied \in SUBSET SeqRange(found[2]) :
           public_coll' = BulkWrite(public_coll, applied, current_time)
    /\ wrote' = TRUE
    /\ pc' = "main_except"
    /\ UNCHANGED <<ret, extractVars, connVars, attempt, waits, client, indexed, private_coll, now,
                   current_time, found, printed, main_outcome>>

\* Lines 234-241: print the two counts, count the stored documents, print the totals.
Report ==
    /\ pc = "report"
    /\ printed' = << Len(found[1]), Len(found[2]),
                     CountDocuments(private_coll), CountDocuments(public_coll) >>
    /\ pc' = "close"
    /\ UNCHANGED <<ret, extractVars, connVars, attempt, waits, client, storeVars, now, current_time,
                   found, wrote, main_outcome>>

\* Lines 234-239: the two counts are printed, then count_documents raises.
ReportFail ==
    /\ pc = "report"
    /\ printed' = << Len(found[1]), Len(found[2]) >>
    /\ pc' = "main_except"
    /\ UNCHANGED <<ret, extractVars, connVars, attempt, waits, client, storeVars, now, current_time,
                   found, wrote, main_outcome>>

\* Line 245: client.close(); main returns.
Close ==
    /\ pc = "close"
    /\ client' = "closed"
    /\ main_outcome' = "return"
    /\ pc' = "main_return"
    /\ UNCHANGED <<ret, extractVars, connVars, attempt, waits, storeVars, now, current_time, found,
                   wrote, printed>>

\* Main's except clause re-raising what it caught.
MainExcept_Reraise ==
    /\ pc = "main_except"
    /\ main_outcome' = "raise"
    /\ pc' = "main_return"
    /\ UNCHANGED <<ret, extractVars, connVars, attempt, waits, client, storeVars, now, current_time,
                   found, wrote, printed>>

\* Lines 247-248: except Exception: log the error; main returns.
MainExcept ==
    /\ pc = "main_except"
    /\ main_outcome' = "return"
    /\ pc' = "main_return"
    /\ UNCHANGED <<ret, extractVars, connVars, attempt, waits, client, storeVars, now, current_time,
                   found, wrote, printed>>

\* Lines 254-256: main has returned: print and sleep, after which the loop turns.
\* An exception out of main would end the loop and the process.
LoopSleep ==
    /\ pc = "main_return"
    /\ IF main_outcome = "raise"
       THEN /\ pc' = "crashed"
            /\ UNCHANGED now
       ELSE /\ pc' = "loop"
            /\ now' = IF now < MaxTime THEN now + 1 ELSE now
    /\ UNCHANGED <<ret, extractVars, connVars, attempt, waits, client, storeVars, current_time,
                   found, wrote, printed, main_outcome>>

InitMain ==
    /\ pc = "loop"
    /\ InitExtract
    /\ InitMainVars

\* The steps of the main thread in a run of the program.
MainThread ==
    \/ LoopCall
    \/ MainStart
    \/ ConnectSucceed
    \/ ConnectFail
    \/ MainCheckClient
    \/ ValidateFile
    \/ OpenFile
    \/ ReadChunk
    \/ ReadError
    \/ \E i \in 1..Len(futures) : Collect(i)
    \/ Finish
    \/ Unwind
    \/ ExceptHandler
    \/ MainAfterExtract
    \/ StorePrivate
    \/ StorePrivateFail
    \/ StorePublic
    \/ StorePublicFail
    \/ Report
    \/ ReportFail
    \/ Close
    \/ MainExcept
    \/ LoopSleep

\* The steps of the pool's worker processes: a pending task ends, one way or the
\* other.
Workers == \E i \in 1..Len(futures) : WorkerFail(i) \/ WorkerRun(i)

NextMain == MainThread \/ Workers

\* The program as started from __main__.  The main thread always takes its next
\* step, and every submitted task is eventually ended by a worker.
MainSpec == InitMain /\ [][NextMain]_vars /\ WF_vars(MainThread) /\ WF_vars(Workers)

----------------------------------------------------------------------------
(* Properties of extract_ips_from_file *)

\* The text t as a str.
Str(t) == Text(t)

Empty == << <<>>, <<>> >>

\* A call on a non-empty regular file has returned and nothing failed in it.
Succeeded ==
    /\ pc = "returned"
    /\ outcome.kind = "return"
    /\ failure = "none"
    /\ source.kind = "regular"
    /\ Len(source.data) > 0

RECURSIVE SplitChunks(_, _, _)
\* The consecutive chunks of cs bytes of data from offset off on.
SplitChunks(data, cs, off) ==
    IF off >= Len(data) THEN <<>>
    ELSE <<SubSeq(data, off + 1, Min(off + cs, Len(data)))>> \o SplitChunks(data, cs, off + cs)

\* The sorted union of the results of every chunk of data, taken in file order.
FullResult(data, cs) ==
    LET ch == SplitChunks(data, cs, 0)
    IN  << sorted(UNION {process_chunk(ch[i])[1] : i \in 1..Len(ch)}),
           sorted(UNION {process_chunk(ch[i])[2] : i \in 1..Len(ch)}) >>

\* The result of processing data as one chunk.
WholeResult(data) == << sorted(process_chunk(data)[1]), sorted(process_chunk(data)[2]) >>

\* The span sp of data (<<start, end>>, end exclusive) lies across a split point of
\* chunks of cs bytes.
Straddles(sp, cs, data) ==
    \E k \in 1..(Len(data) \div cs) : sp[1] <= k * cs /\ k * cs < sp[2] - 1

\* s is in 10.0.0.0/8, 172.16.0.0/12 or 192.168.0.0/16.
InPrivateRange(s) ==
    LET o == OctetValues(s)
    IN  \/ o[1] = 10
        \/ o[1] = 172 /\ o[2] \in 16..31
        \/ o[1] = 192 /\ o[2] = 168

\* s parses as an address that is neither unspecified, reserved nor multicast.
Classifiable(s) ==
    /\ ip_address(s) # ValueError
    /\ ip_address(s) # <<0, 0, 0, 0>>
    /\ ip_address(s)[1] < 224

StrictlyIncreasing(q) == \A i \in 1..(Len(q) - 1) : StrLess(q[i], q[i + 1])

\* C1: for every chunk size >= 15, an address token of the stream that lies across
\* a chunk split point is in the returned list of its class.
C1_StraddlingTokenFound ==
    Succeeded =>
        LET spans == MatchSpans(source.data)
        IN  \A n \in 1..Len(spans) :
                LET tok == Decode(SubSeq(source.data, spans[n][1], spans[n][2] - 1))
                IN  Straddles(spans[n], chunk_size, source.data) =>
                        IF validate_ip(tok)
                        THEN tok \in SeqRange(outcome.value[1])
                        ELSE tok \in SeqRange(outcome.value[2])

\* C2: the returned pair is the same for every chunk size: it equals the result of
\* processing the whole input as one chunk.
C2_ChunkSizeInvariant == Succeeded => outcome.value = WholeResult(source.data)

\* C3: no unspecified, reserved or multicast address (nor any other candidate the
\* classifier cannot classify) is in the private or the public result.
C3_UnclassifiableDropped ==
    Succeeded =>
        \A s \in SeqRange(outcome.value[1]) \cup SeqRange(outcome.value[2]) : Classifiable(s)

\* C4: every matched token is in exactly one list; every octet of a listed address
\* is at most 255; a classifiable address is in the private list iff it lies in one
\* of the three private ranges and in the public list otherwise; the scenario input,
\* read as one chunk, yields private = [10.0.0.5, 192.168.1.1], public = [8.8.8.8].
C4_Classification ==
    Succeeded =>
        LET prv == SeqRange(outcome.value[1])
            pub == SeqRange(outcome.value[2])
        IN  /\ \A i \in 1..Len(futures) :
                   \A m \in SeqRange(IP_PATTERN_findall(futures[i].chunk)) :
                       (Decode(m) \in prv) # (Decode(m) \in pub)
            /\ \A s \in prv \cup pub :
                   /\ Len(OctetValues(s)) = 4
                   /\ \A j \in 1..4 : OctetValues(s)[j] <= 255
                   /\ Classifiable(s) =>
                          /\ s \in prv <=> InPrivateRange(s)
                          /\ s \in pub <=> ~InPrivateRange(s)
            /\ (source.data = Text(ScenarioText) /\ chunk_size >= Len(source.data)) =>
                   outcome.value =
                       << << Str(<<"1","0",".","0",".","0",".","5">>),
                             Str(<<"1","9","2",".","1","6","8",".","1",".","1">>) >>,
                          << Str(<<"8",".","8",".","8",".","8">>) >> >>

C4_Witness ==
    /\ Succeeded
    /\ source.data = Text(ScenarioText)
    /\ chunk_size = DEFAULT_CHUNK_SIZE
    /\ Len(outcome.value[1]) = 2
    /\ Len(outcome.value[2]) = 1

\* C5: a call in which a read or a chunk task failed returns ([], []), whatever had
\* been merged; every call returns (never raises), and what it returns is either
\* the full result or ([], []).
C5_AllOrNothing ==
    pc = "returned" =>
        /\ outcome.kind = "return"
        /\ failure # "none" => outcome.value = Empty
        /\ outcome.value \in {Empty, FullResult(source.data, chunk_size)}

C5_Witness ==
    /\ pc = "returned"
    /\ failure = "task"
    /\ private_ips # {}
    /\ outcome = Returned(Empty)

C5_WitnessRead ==
    /\ pc = "returned"
    /\ failure = "read"
    /\ \E i \in 1..Len(futures) : futures[i].result # << {}, {} >>
    /\ outcome = Returned(Empty)

\* The file at file_path is absent, unreadable or empty.
Unavailable == source.kind \in {"missing", "unreadable"} \/ Len(source.data) = 0

\* C6: on an absent, unreadable or empty source the call never enters the read loop
\* (nothing is read, nothing is submitted) and returns ([], []) without raising.
C6_InputUnavailable ==
    (pc # "idle" /\ Unavailable) =>
        /\ pc \in {"validate", "open", "except", "returned"}
        /\ offset = 0
        /\ futures = <<>>
        /\ pc = "returned" => outcome = Returned(Empty)

C6_Witness ==
    /\ pc = "returned"
    /\ source.kind = "unreadable"
    /\ failure = "open"
    /\ outcome = Returned(Empty)

\* C7: whatever the order in which the chunk tasks complete and are merged, a
\* successful call returns the pair that merging the chunks in file order gives, a
\* function of the input and the chunk size alone.
C7_OrderIndependent == Succeeded => outcome.value = FullResult(source.data, chunk_size)

\* A later chunk's non-empty result is merged while an earlier chunk's non-empty
\* result is not yet.
C7_Witness ==
    /\ pc = "collect"
    /\ \E i, j \in 1..Len(futures) :
           /\ i < j
           /\ futures[j].collected /\ futures[j].result # << {}, {} >>
           /\ ~futures[i].collected /\ futures[i].state = "finished"
           /\ futures[i].result # << {}, {} >>
           /\ futures[i].result # futures[j].result

NoDuplicates(q) == \A i, j \in 1..Len(q) : i # j => q[i] # q[j]

\* C8: in every state of a call the private and the public set are disjoint, and
\* the returned lists are disjoint and hold no entry twice.
C8_Disjoint ==
    /\ private_ips \cap public_ips = {}
    /\ (pc = "returned" /\ outcome.kind = "return") =>
           /\ SeqRange(outcome.value[1]) \cap SeqRange(outcome.value[2]) = {}
           /\ NoDuplicates(outcome.value[1])
           /\ NoDuplicates(outcome.value[2])

C8_Witness ==
    /\ Succeeded
    /\ Len(futures) >= 2
    /\ Len(outcome.value[1]) >= 1
    /\ Len(outcome.value[2]) >= 1

\* C9: a successful call returns, for each class, exactly the union of the per-chunk
\* sets of all submitted chunks, in strictly increasing lexicographic string order.
C9_SortedUnion ==
    Succeeded =>
        /\ SeqRange(outcome.value[1]) = UNION {futures[i].result[1] : i \in 1..Len(futures)}
        /\ SeqRange(outcome.value[2]) = UNION {futures[i].result[2] : i \in 1..Len(futures)}
        /\ StrictlyIncreasing(outcome.value[1])
        /\ StrictlyIncreasing(outcome.value[2])

\* "10.0.0.100" is returned before "10.0.0.2".
C9_Witness ==
    /\ Succeeded
    /\ Len(futures) >= 2
    /\ Len(outcome.value[1]) >= 2
    /\ outcome.value[1][1] = Str(<<"1","0",".","0",".","0",".","1","0","0">>)
    /\ outcome.value[1][2] = Str(<<"1","0",".","0",".","0",".","2">>)

----------------------------------------------------------------------------
(* Properties of main and the scheduling loop *)

\* C10: no failure inside a run leaves main as an exception, so the loop never
\* ends, and a run is started again and again.
C10_LoopSurvives ==
    /\ [](pc # "crashed" /\ main_outcome # "raise")
    /\ []<>(pc = "main_entry")

\* A run in which a storage call failed after the connection was made has
\* returned normally to the loop.
C10_Witness ==
    /\ pc = "main_return"
    /\ main_outcome = "return"
    /\ client = "open"
    /\ wrote

----------------------------------------------------------------------------
(* Properties of a run of main *)

\* The positions of main between the client check and the end of the run.
AfterClientCheck ==
    {"validate", "open", "read", "collect", "unwind", "except", "returned",
     "store_private", "store_public", "report", "close", "main_except"}

\* connect_to_mongodb returned None, None, None to this run of main.
ConnectionFailed == pc \in {"check_client", "main_return"} /\ client = "none"

\* C11: a run whose connection could not be established after the retries goes
\* no further than the client check: it writes to neither collection, prints no
\* counts, returns normally, and the loop goes on to its next turn.
C11_NoStoreWithoutClient ==
    /\ [](ConnectionFailed => ~wrote /\ printed = <<>> /\ tried = max_retries)
    /\ [](pc \in AfterClientCheck => client = "open")
    /\ [][ConnectionFailed =>
             /\ private_coll' = private_coll
             /\ public_coll' = public_coll
             /\ printed' = printed
             /\ pc' \in {"main_return", "loop"}
             /\ pc' = "main_return" => main_outcome' = "return"]_vars
    /\ (ConnectionFailed ~> pc = "main_entry")

\* A run has ended after all its connection attempts failed, with documents stored
\* by an earlier run.
C11_Witness ==
    /\ pc = "main_return"
    /\ client = "none"
    /\ tried = max_retries
    /\ waits = max_retries - 1
    /\ private_coll # {}
----------------------------------------------------------------------------
(* Properties of the stored documents *)

\* coll holds at most one document per address, each with first_seen <= last_seen.
WellFormed(coll) ==
    /\ \A d, e \in coll : d.ip = e.ip => d = e
    /\ \A d \in coll : d.first_seen <= d.last_seen

\* Every address of the list ips has a document in coll whose last_seen is t.
SeenAt(coll, ips, t) ==
    \A k \in 1..Len(ips) : \E d \in coll : d.ip = ips[k] /\ d.last_seen = t

\* From coll to after, every document is kept with its first_seen, and its
\* last_seen is the same or is t.
Kept(coll, after, t) ==
    \A d \in coll : \E e \in after :
        /\ e.ip = d.ip
        /\ e.first_seen = d.first_seen
        /\ e.last_seen \in {d.last_seen, t}

\* Every document of after whose address coll does not hold is for an address of
\* ips and has first_seen = last_seen = t.
Inserted(coll, after, ips, t) ==
    \A e \in after :
        (\A d \in coll : d.ip # e.ip) =>
            /\ e.ip \in SeqRange(ips)
            /\ e.first_seen = t
            /\ e.last_seen = t

\* C12 as stated: at most one document per address, first_seen <= last_seen, and
\* at the end of a run that had a client the last_seen of every address of the
\* run's result is the run's timestamp.
C12_LastSeenOfLatestRun ==
    /\ WellFormed(private_coll)
    /\ WellFormed(public_coll)
    /\ (pc = "main_return" /\ client # "none") =>
           /\ SeenAt(private_coll, found[1], current_time)
           /\ SeenAt(public_coll, found[2], current_time)

\* C12 amended: at most one document per address and first_seen <= last_seen; no
\* document is ever removed or has its first_seen changed; a new document is for
\* an address of the run's result with first_seen = last_seen = the run's
\* timestamp; last_seen changes only to the timestamp of the run writing it; and
\* once a run's bulk_write for a class has succeeded, every address of that class
\* in the run's result has last_seen = the run's timestamp.  A run whose
\* bulk_write raised may leave last_seen of its addresses as it was.
C12_StoredTimestamps ==
    /\ [](WellFormed(private_coll) /\ WellFormed(public_coll))
    /\ [][/\ Kept(private_coll, private_coll', current_time)
          /\ Kept(public_coll, public_coll', current_time)
          /\ Inserted(private_coll, private_coll', found[1], current_time)
          /\ Inserted(public_coll, public_coll', found[2], current_time)]_vars
    /\ [](pc \in {"store_public", "report", "close"} =>
             SeenAt(private_coll, found[1], current_time))
    /\ [](pc \in {"report", "close"} \/ (pc = "main_return" /\ client = "closed") =>
             /\ SeenAt(private_coll, found[1], current_time)
             /\ SeenAt(public_coll, found[2], current_time))

\* A run has ended whose writes succeeded on an address an earlier run had stored,
\* while the other collection holds a document no run has since updated.
C12_Witness ==
    /\ pc = "main_return"
    /\ client = "closed"
    /\ \E d \in private_coll : d.first_seen < d.last_seen /\ d.last_seen = current_time
    /\ \E e \in public_coll : e.last_seen < current_time
----------------------------------------------------------------------------
(* Properties of the dispatched chunks *)

\* The byte string tok occurs in the byte string buf.
OccursIn(tok, buf) ==
    \E j \in 1..(Len(buf) - Len(tok) + 1) : SubSeq(buf, j, j + Len(tok) - 1) = tok

\* The buffer cur starts with n bytes that end the buffer prev.
OverlapsBy(prev, cur, n) ==
    /\ n <= Len(prev)
    /\ n <= Len(cur)
    /\ SubSeq(cur, 1, n) = SubSeq(prev, Len(prev) - n + 1, Len(prev))

\* C13: every submitted chunk after the first starts with at least 15 bytes of the
\* end of the chunk before it, and once all chunks are submitted every token the
\* pattern matches in the stream lies whole in some submitted chunk.
C13_ChunksOverlap ==
    /\ \A i \in 2..Len(futures) :
           \E n \in 15..Len(futures[i].chunk) :
               OverlapsBy(futures[i - 1].chunk, futures[i].chunk, n)
    /\ (pc = "collect" /\ source.kind = "regular") =>
           LET toks == IP_PATTERN_findall(source.data)
           IN  \A k \in 1..Len(toks) :
                   \E i \in 1..Len(futures) : OccursIn(toks[k], futures[i].chunk)

\* C18: every address a successful call returns is a token the pattern matches in
\* the whole stream; no piece of a token cut by a chunk boundary is returned.
C18_NoFragments ==
    Succeeded =>
        LET toks == IP_PATTERN_findall(source.data)
            whole == {Decode(toks[k]) : k \in 1..Len(toks)}
        IN  /\ SeqRange(outcome.value[1]) \subseteq whole
            /\ SeqRange(outcome.value[2]) \subseteq whole
----------------------------------------------------------------------------
(* Properties of the order of extraction and storage *)

\* The positions inside extract_ips_from_file.
InExtraction == {"validate", "open", "read", "collect", "unwind", "except", "returned"}

\* C14: while main's call of extract_ips_from_file is in progress nothing has been
\* written in this run; a collection changes only in a bulk_write step, after the
\* call has returned, for a non-empty list; when the call returns no task is
\* pending and, unless it failed, every task's result is merged; a call that
\* failed hands main the empty pair; and a run whose extraction gave the empty
\* pair writes nothing.
C14_StoreAfterExtraction ==
    /\ [](pc \in InExtraction /\ ret = "main" => ~wrote)
    /\ [][private_coll' # private_coll \/ public_coll' # public_coll \/ (wrote' /\ ~wrote) =>
             /\ pc \in {"store_private", "store_public"}
             /\ futures = <<>>
             /\ pc = "store_private" => found[1] # <<>> /\ public_coll' = public_coll
             /\ pc = "store_public" => found[2] # <<>> /\ private_coll' = private_coll]_vars
    /\ [](pc = "returned" /\ ret = "main" /\ (failure # "none" \/ Unavailable) =>
             outcome = Returned(Empty))
    /\ [](pc = "returned" /\ ret = "main" =>
             \A i \in 1..Len(futures) :
                 /\ futures[i].state # "pending"
                 /\ failure = "none" => futures[i].collected)
    /\ [][pc = "returned" /\ ret = "main" => found' = outcome.value]_vars
    /\ [](found = Empty => ~wrote)

\* A run that had a client and whose extraction gave the empty pair has ended,
\* having printed its counts, with the documents of an earlier run untouched.
C14_Witness ==
    /\ pc = "main_return"
    /\ client = "closed"
    /\ found = Empty
    /\ ~wrote
    /\ printed # <<>>
    /\ \E d \in private_coll : d.last_seen < current_time
----------------------------------------------------------------------------
(* Properties of the merge *)

\* C15: in a call the two sets are empty until the first result is merged; a step
\* of the call never removes an entry, and changes a set only by merging into it
\* the result of one task not merged before; the lists of a successful call are
\* returned only when the whole input has been submitted and every task's result
\* has been merged, and are the sorted sets.
C15_SetsOnlyGrow ==
    /\ [](pc \in {"validate", "open"} \/ (\A i \in 1..Len(futures) : ~futures[i].collected) =>
             private_ips = {} /\ public_ips = {})
    /\ [][pc' # "validate" =>
             /\ private_ips \subseteq private_ips'
             /\ public_ips \subseteq public_ips'
             /\ (private_ips' # private_ips \/ public_ips' # public_ips) =>
                    \E i \in 1..Len(futures) :
                        /\ ~futures[i].collected
                        /\ futures'[i].collected
                        /\ private_ips' = private_ips \cup futures[i].result[1]
                        /\ public_ips' = public_ips \cup futures[i].result[2]]_vars
    /\ [](Succeeded =>
             /\ offset = Len(source.data)
             /\ \A i \in 1..Len(futures) : futures[i].collected
             /\ outcome.value = << sorted(private_ips), sorted(public_ips) >>)

\* A successful call has returned non-empty lists of both classes merged from
\* three chunks or more.
C15_Witness ==
    /\ Succeeded
    /\ Len(futures) >= 3
    /\ private_ips # {}
    /\ public_ips # {}
    /\ \E i, j \in 1..Len(futures) :
           futures[i].result[1] # {} /\ futures[j].result[2] # {} /\ i # j
----------------------------------------------------------------------------
(* Properties of the pool *)

\* The number of worker processes of ProcessPoolExecutor(), which is the number of
\* processors of the machine.
WorkerCount == 2

\* The tasks submitted and not yet collected.
InFlight == {i \in 1..Len(futures) : ~futures[i].collected}

\* C16: while a call reads and collects, the tasks submitted and not yet collected
\* are never more than the pool's workers.
C16_InFlightBounded ==
    pc \in {"read", "collect"} => Cardinality(InFlight) <= WorkerCount
----------------------------------------------------------------------------
(* Properties of connect_to_mongodb *)

\* connect_to_mongodb has returned.
ConnectReturned == pc = "check_client"

\* C17: a call makes at most max_retries attempts.  An attempt either succeeds, and
\* the call returns the client at once without a wait, or fails, and then the call
\* waits and tries again if attempts are left, and returns None without a wait if
\* it was the last.  So a returned client comes from the first successful attempt,
\* after one wait for each failed one; None is returned only after max_retries
\* failed attempts and one wait fewer (or no attempt when max_retries is 0).
C17_BoundedRetries ==
    /\ [](tried <= retries /\ waits <= tried)
    /\ [](pc = "connect" => tried < retries \/ retries = 0)
    /\ [][tried' = tried + 1 =>
             \/ /\ client' = "open"
                /\ pc' = "check_client"
                /\ waits' = waits
             \/ /\ tried' < retries
                /\ waits' = waits + 1
                /\ pc' = "connect"
                /\ client' = client
             \/ /\ tried' = retries
                /\ waits' = waits
                /\ pc' = "check_client"
                /\ client' = "none"]_vars
    /\ [](ConnectReturned /\ client = "open" => tried >= 1 /\ waits = tried - 1)
    /\ [](ConnectReturned /\ client # "open" =>
             /\ client = "none"
             /\ tried = retries
             /\ waits = IF retries = 0 THEN 0 ELSE retries - 1)

\* A call has returned a client from its third attempt although no index could be
\* created.
C17_Witness ==
    /\ ConnectReturned
    /\ client = "open"
    /\ ~indexed
    /\ tried = 3
    /\ waits = 2
    /\ retries = max_retries
----------------------------------------------------------------------------
(* Properties of the client *)

\* C19: when a run of main has ended, and until the next run connects, no client is
\* open: a run that obtained a client has closed it on whatever path it ended.
C19_ClientClosed ==
    pc \in {"main_return", "loop", "main_entry"} => client # "open"
====
